---- MODULE Spec2Model ----
(***************************************************************************)
(* dockup: one backup run of main() (src/src/main.py) driving              *)
(* perform_backup() (src/src/backup.py) and send_email()                   *)
(* (src/src/email_service.py).  The run is a sequential program; every     *)
(* blocking call that can fail (tar, connect, remote command, sftp put,    *)
(* SMTP) is one step whose outcome is drawn nondeterministically.          *)
(***************************************************************************)
EXTENDS Integers, Sequences, FiniteSets, TLC

\* Largest number of volumes os.listdir('/mnt') yields in the model.
MaxVolumes == 3
\* Largest number of archives already in each volume's remote folder at start
\* (earlier runs leave the same number in every folder).
MaxRemoteInit == 1
\* Largest value of the clock (in seconds) read by datetime.now().
MaxClock == 2
\* Largest number of successive invocations of main() in SpecRuns.
MaxRuns == 2
\* Largest number of volumes in SpecRuns.
MaxRunVolumes == 1

VolumeNames == 1..MaxVolumes

VARIABLES
    volumes,         \* backup.py:18-22  discovered volume names, in discovery order
    ssh_key_exists,  \* backup.py:33     os.path.exists(config.SSH_KEY)
    has_remote_path, \* backup.py:66     config has attribute REMOTE_BACKUP_PATH
    pc,              \* position of the run in main()/perform_backup()
    idx,             \* backup.py:49     position of the for loop in volumes
    backup_summary,  \* backup.py:16,88  summary entries appended so far
    now,             \* backup.py:51     second last returned by datetime.now()
    archive_time,    \* backup.py:51     volume -> timestamp in its archive_name (0: none)
    local_files,     \* archive names <<volume, timestamp>> in the working directory
    remote_dirs,     \* volumes whose remote folder exists
    remote_files,    \* volume -> archive names of the *.tar.gz in its remote folder
    remote_count,    \* backup.py:82     value read by the last count query
    tarball,         \* volume -> what tar returned and left on disk (backup.py:58)
    provision,       \* volume -> outcome of the remote mkdir step (backup.py:66-68)
    transfer,        \* volume -> outcome of sftp.put (backup.py:73)
    ssh_created,     \* backup.py:37     paramiko.SSHClient() was constructed
    connects,        \* backup.py:40     number of ssh.connect calls
    connected,       \* backup.py:40     ssh.connect returned normally
    closes,          \* backup.py:102    number of ssh.close calls
    emails,          \* email_service.py:7  send_email calls, in order
    fatal_error,     \* main.py:14       exception that left perform_backup
    last_action,     \* last externally observable call of the run
    run,             \* main.py:19-20   number of the current invocation of main()
    previous_run     \* summary and archive timestamps of the previous invocation

vars == <<volumes, ssh_key_exists, has_remote_path, pc, idx, backup_summary,
          local_files, remote_dirs, remote_files, remote_count, tarball,
          provision, transfer, ssh_created, connects, connected, closes, emails,
          fatal_error, last_action, now, archive_time, run, previous_run>>

\* Sequences over VolumeNames without repetition (os.listdir names are distinct).
VolumeLists ==
    { s \in UNION { [1..n -> VolumeNames] : n \in 0..MaxVolumes } :
        \A a, b \in DOMAIN s : a # b => s[a] # s[b] }

NoError == "none"

\* backup.py:58: no tar command has run for the volume yet
NotArchived == [attempted |-> FALSE, status |-> 0, file_exists |-> FALSE]

\* backup.py:58: tar returned tarball_result and left (or did not leave) a file
TarOutcome(tarball_result, file_exists) ==
    [attempted |-> TRUE, status |-> tarball_result, file_exists |-> file_exists]

\* Mutant of ArchiveName: the timestamp is left out of the name.
ArchiveName_NoTimestamp(volume_name, timestamp) ==
    <<volume_name, 0>>

\* backup.py:51: f"{volume_name}_{now:%Y-%m-%d_%H-%M-%S}.tar.gz"
ArchiveName(volume_name, timestamp) ==
    <<volume_name, timestamp>>

\* main.py:19-20: nothing is known of an invocation before the first one
NoPreviousRun ==
    [summary |-> << >>, archive_time |-> [v \in VolumeNames |-> 0]]

Init ==
    /\ volumes \in VolumeLists
    /\ ssh_key_exists \in BOOLEAN
    /\ has_remote_path \in BOOLEAN
    /\ pc = "main"
    /\ idx = 0
    /\ backup_summary = << >>
    /\ local_files = {}
    /\ \E n \in 0..MaxRemoteInit :
         /\ remote_files =
              [v \in VolumeNames |-> { ArchiveName(v, t) : t \in 1..n }]
         /\ now = IF n = 0 THEN 1 ELSE n
    /\ remote_dirs = { v \in VolumeNames : remote_files[v] # {} }
    /\ archive_time = [v \in VolumeNames |-> 0]
    /\ run = 1
    /\ previous_run = NoPreviousRun
    /\ remote_count = 0
    /\ tarball = [v \in VolumeNames |-> NotArchived]
    /\ provision = [v \in VolumeNames |-> "pending"]
    /\ transfer = [v \in VolumeNames |-> "pending"]
    /\ ssh_created = FALSE
    /\ connects = 0
    /\ connected = FALSE
    /\ closes = 0
    /\ emails = << >>
    /\ fatal_error = NoError
    /\ last_action = "none"

\* raise: the exception leaves perform_backup and is caught at main.py:14
Raise(kind) ==
    /\ pc' = "except"
    /\ fatal_error' = kind

\* email_service.py:7-29: one send_email call; it returns or raises
Email(subject, entries, detail, sent) ==
    [subject |-> subject, entries |-> entries, detail |-> detail, sent |-> sent]

\* backup.py:16-30: discovery and the early return on no volumes;
\* main.py:13 then logs completion and main returns.
Discover ==
    /\ pc = "main"
    /\ IF volumes = << >>
         THEN pc' = "done"
         ELSE pc' = "check_key"
    /\ UNCHANGED <<run, previous_run, now, archive_time,
                   volumes, ssh_key_exists, has_remote_path, idx, backup_summary,
                   local_files, remote_dirs, remote_files, remote_count, tarball,
                   provision, transfer, ssh_created, connects, connected, closes, emails,
                   fatal_error, last_action>>

\* Mutant of CheckKey: with the key present the run goes straight to the
\* volume loop and never connects.
CheckKey_SkipsConnect ==
    /\ pc = "check_key"
    /\ IF ssh_key_exists
         THEN pc' = "loop" /\ idx' = 1 /\ UNCHANGED fatal_error
         ELSE Raise("ssh_key_not_found") /\ UNCHANGED idx
    /\ UNCHANGED <<run, previous_run, now, archive_time,
                   volumes, ssh_key_exists, has_remote_path, backup_summary,
                   local_files, remote_dirs, remote_files, remote_count, tarball,
                   provision, transfer, ssh_created, connects, connected, closes, emails,
                   last_action>>

\* backup.py:32-35
CheckKey ==
    /\ pc = "check_key"
    /\ IF ssh_key_exists
         THEN pc' = "connect" /\ UNCHANGED fatal_error
         ELSE Raise("ssh_key_not_found")
    /\ UNCHANGED <<run, previous_run, now, archive_time,
                   volumes, ssh_key_exists, has_remote_path, idx, backup_summary,
                   local_files, remote_dirs, remote_files, remote_count, tarball,
                   provision, transfer, ssh_created, connects, connected, closes, emails,
                   last_action>>

ConnectOutcomes == {"ok", "ssh_connection_failed", "connect_error"}

\* Mutant of Connect: a failed connect is logged and the run goes on into
\* the volume loop instead of raising.
Connect_FailureSwallowed ==
    /\ pc = "connect"
    /\ ssh_created' = TRUE
    /\ connects' = connects + 1
    /\ last_action' = "connect"
    /\ \E outcome \in ConnectOutcomes :
         /\ connected' = (outcome = "ok")
         /\ pc' = "loop"
         /\ idx' = 1
         /\ UNCHANGED fatal_error
    /\ UNCHANGED <<run, previous_run, now, archive_time,
                   volumes, ssh_key_exists, has_remote_path, backup_summary,
                   local_files, remote_dirs, remote_files, remote_count, tarball,
                   provision, transfer, closes, emails>>

\* backup.py:37-48: SSHClient(), connect; an SSHException is re-raised as
\* "SSH connection failed", any other exception propagates as it is.
Connect ==
    /\ pc = "connect"
    /\ ssh_created' = TRUE
    /\ connects' = connects + 1
    /\ last_action' = "connect"
    /\ \E outcome \in ConnectOutcomes :
         IF outcome = "ok"
           THEN /\ connected' = TRUE
                /\ pc' = "loop"
                /\ idx' = 1
                /\ UNCHANGED fatal_error
           ELSE /\ Raise(outcome)
                /\ UNCHANGED <<connected, idx>>
    /\ UNCHANGED <<run, previous_run, now, archive_time,
                   volumes, ssh_key_exists, has_remote_path, backup_summary,
                   local_files, remote_dirs, remote_files, remote_count, tarball,
                   provision, transfer, closes, emails>>

\* Mutant of TarballFailed: "and" in place of "or", so a nonzero status with
\* a file left on disk is not a failure.
TarballFailed_BothRequired(tarball_result, file_exists) ==
    tarball_result # 0 /\ ~file_exists

\* backup.py:61: the volume is skipped on nonzero status or a missing file
TarballFailed(tarball_result, file_exists) ==
    tarball_result # 0 \/ ~file_exists

\* Mutant of Archive: a failed archival is retried instead of skipped.
Archive_RetriesOnFailure ==
    /\ pc = "loop"
    /\ idx <= Len(volumes)
    /\ last_action' = "tar"
    /\ \E t \in now..(IF now < MaxClock THEN now + 1 ELSE now),
          tarball_result \in {0, 1}, written \in BOOLEAN :
         LET archive_name == ArchiveName(volumes[idx], t)
             file_exists == written \/ archive_name \in local_files
         IN
         /\ now' = t
         /\ archive_time' = [archive_time EXCEPT ![volumes[idx]] = t]
         /\ tarball' = [tarball EXCEPT
                           ![volumes[idx]] = TarOutcome(tarball_result, file_exists)]
         /\ local_files' = IF written
                             THEN local_files \cup {archive_name}
                             ELSE local_files
         /\ IF TarballFailed(tarball_result, file_exists)
              THEN /\ idx' = idx
                   /\ pc' = "loop"
              ELSE /\ idx' = idx
                   /\ pc' = "mkdir"
    /\ UNCHANGED <<run, previous_run,
                   volumes, ssh_key_exists, has_remote_path, backup_summary,
                   remote_dirs, remote_files, remote_count, provision, transfer,
                   ssh_created, connects, connected, closes, emails, fatal_error>>

\* backup.py:49-63: next volume of the loop, the clock read for archive_name,
\* tar czf, and the skip on failure.  The clock never runs backwards and is
\* read to the second; os.path.exists is true when tar wrote the file or a
\* file of that name was already there.
Archive ==
    /\ pc = "loop"
    /\ idx <= Len(volumes)
    /\ last_action' = "tar"
    /\ \E t \in now..(IF now < MaxClock THEN now + 1 ELSE now),
          tarball_result \in {0, 1}, written \in BOOLEAN :
         LET archive_name == ArchiveName(volumes[idx], t)
             file_exists == written \/ archive_name \in local_files
         IN
         /\ now' = t
         /\ archive_time' = [archive_time EXCEPT ![volumes[idx]] = t]
         /\ tarball' = [tarball EXCEPT
                           ![volumes[idx]] = TarOutcome(tarball_result, file_exists)]
         /\ local_files' = IF written
                             THEN local_files \cup {archive_name}
                             ELSE local_files
         /\ IF TarballFailed(tarball_result, file_exists)
              THEN /\ idx' = idx + 1
                   /\ pc' = "loop"
              ELSE /\ idx' = idx
                   /\ pc' = "mkdir"
    /\ UNCHANGED <<run, previous_run,
                   volumes, ssh_key_exists, has_remote_path, backup_summary,
                   remote_dirs, remote_files, remote_count, provision, transfer,
                   ssh_created, connects, connected, closes, emails, fatal_error>>

MkdirOutcomes == {"ok", "remote_failure", "ssh_exception"}

\* Mutant of EnsureRemoteFolder: the exit status of mkdir is read and the
\* volume is skipped when it is nonzero.
EnsureRemoteFolder_SkipsOnFailure ==
    /\ pc = "mkdir"
    /\ IF ~has_remote_path
         THEN /\ Raise("attribute_error")
              /\ provision' = [provision EXCEPT ![volumes[idx]] = "attribute_error"]
              /\ UNCHANGED <<remote_dirs, last_action, idx>>
         ELSE /\ last_action' = "mkdir"
              /\ \E outcome \in MkdirOutcomes :
                 /\ provision' = [provision EXCEPT ![volumes[idx]] = outcome]
                 /\ CASE outcome = "ok" ->
                          /\ remote_dirs' = remote_dirs \cup {volumes[idx]}
                          /\ pc' = "upload"
                          /\ UNCHANGED <<fatal_error, idx>>
                     [] outcome = "remote_failure" ->
                          /\ pc' = "loop"
                          /\ idx' = idx + 1
                          /\ UNCHANGED <<remote_dirs, fatal_error>>
                     [] outcome = "ssh_exception" ->
                          /\ Raise("ssh_exception")
                          /\ UNCHANGED <<remote_dirs, idx>>
    /\ UNCHANGED <<run, previous_run, now, archive_time,
                   volumes, ssh_key_exists, has_remote_path, backup_summary,
                   local_files, remote_files, remote_count, tarball, transfer,
                   ssh_created, connects, connected, closes, emails>>

\* backup.py:65-68: config.REMOTE_BACKUP_PATH (AttributeError when config has
\* no such attribute), then exec_command("mkdir -p ..."): the command's own
\* exit status is never read; exec_command itself may raise.
EnsureRemoteFolder ==
    /\ pc = "mkdir"
    /\ IF ~has_remote_path
         THEN /\ Raise("attribute_error")
              /\ provision' = [provision EXCEPT ![volumes[idx]] = "attribute_error"]
              /\ UNCHANGED <<remote_dirs, last_action>>
         ELSE /\ last_action' = "mkdir"
              /\ \E outcome \in MkdirOutcomes :
                 /\ provision' = [provision EXCEPT ![volumes[idx]] = outcome]
                 /\ CASE outcome = "ok" ->
                          /\ remote_dirs' = remote_dirs \cup {volumes[idx]}
                          /\ pc' = "upload"
                          /\ UNCHANGED fatal_error
                     [] outcome = "remote_failure" ->
                          /\ pc' = "upload"
                          /\ UNCHANGED <<remote_dirs, fatal_error>>
                     [] outcome = "ssh_exception" ->
                          /\ Raise("ssh_exception")
                          /\ UNCHANGED remote_dirs
    /\ UNCHANGED <<run, previous_run, now, archive_time,
                   volumes, ssh_key_exists, has_remote_path, idx, backup_summary,
                   local_files, remote_files, remote_count, tarball, transfer,
                   ssh_created, connects, connected, closes, emails>>

\* backup.py:70-74: open_sftp, put, close; put cannot succeed into a folder
\* that does not exist, and any failure raises.  A remote file of the same
\* name is overwritten.
Upload ==
    /\ pc = "upload"
    /\ last_action' = "put"
    /\ \/ /\ volumes[idx] \in remote_dirs
          /\ remote_files' = [remote_files EXCEPT
                 ![volumes[idx]] =
                     @ \cup {ArchiveName(volumes[idx], archive_time[volumes[idx]])}]
          /\ transfer' = [transfer EXCEPT ![volumes[idx]] = "ok"]
          /\ pc' = "count"
          /\ UNCHANGED fatal_error
       \/ /\ transfer' = [transfer EXCEPT ![volumes[idx]] = "failed"]
          /\ Raise("transfer_error")
          /\ UNCHANGED remote_files
    /\ UNCHANGED <<run, previous_run, now, archive_time,
                   volumes, ssh_key_exists, has_remote_path, idx, backup_summary,
                   local_files, remote_dirs, remote_count, tarball, provision,
                   ssh_created, connects, connected, closes, emails>>

\* backup.py:76-82: du of the archive, then "ls <folder>/*.tar.gz | wc -l"
CountRemote ==
    /\ pc = "count"
    /\ last_action' = "ls"
    /\ \/ /\ remote_count' = Cardinality(remote_files[volumes[idx]])
          /\ pc' = "remove"
          /\ UNCHANGED fatal_error
       \/ /\ Raise("ssh_exception")
          /\ UNCHANGED remote_count
    /\ UNCHANGED <<run, previous_run, now, archive_time,
                   volumes, ssh_key_exists, has_remote_path, idx, backup_summary,
                   local_files, remote_dirs, remote_files, tarball, provision, transfer,
                   ssh_created, connects, connected, closes, emails>>

\* Mutant of RemoveLocal: the os.remove call is missing.
RemoveLocal_KeepsFile ==
    /\ pc = "remove"
    /\ local_files' = local_files
    /\ pc' = "append"
    /\ last_action' = "remove"
    /\ UNCHANGED <<run, previous_run, now, archive_time,
                   volumes, ssh_key_exists, has_remote_path, idx, backup_summary,
                   remote_dirs, remote_files, remote_count, tarball, provision, transfer,
                   ssh_created, connects, connected, closes, emails, fatal_error>>

\* backup.py:84-86
RemoveLocal ==
    /\ pc = "remove"
    /\ local_files' =
         local_files \ {ArchiveName(volumes[idx], archive_time[volumes[idx]])}
    /\ pc' = "append"
    /\ last_action' = "remove"
    /\ UNCHANGED <<run, previous_run, now, archive_time,
                   volumes, ssh_key_exists, has_remote_path, idx, backup_summary,
                   remote_dirs, remote_files, remote_count, tarball, provision, transfer,
                   ssh_created, connects, connected, closes, emails, fatal_error>>

\* backup.py:88: the entry of one volume (size and duration are text only)
SummaryEntry(volume_name, count) ==
    [volume |-> volume_name, remote_count |-> count]

\* Mutant of SummaryAppend: the entry is inserted at the front of the list.
SummaryAppend_AtFront(summary, entry) ==
    <<entry>> \o summary

\* backup.py:88: list.append
SummaryAppend(summary, entry) ==
    Append(summary, entry)

\* backup.py:88 and the return to the loop header at line 49
AppendSummary ==
    /\ pc = "append"
    /\ backup_summary' =
         SummaryAppend(backup_summary, SummaryEntry(volumes[idx], remote_count))
    /\ idx' = idx + 1
    /\ pc' = "loop"
    /\ UNCHANGED <<run, previous_run, now, archive_time,
                   volumes, ssh_key_exists, has_remote_path, local_files,
                   remote_dirs, remote_files, remote_count, tarball, provision, transfer,
                   ssh_created, connects, connected, closes, emails, fatal_error,
                   last_action>>

\* backup.py:90-100: the loop is exhausted, the body is built from
\* backup_summary and send_email is called; send_email raises on SMTP failure.
Report ==
    /\ pc = "loop"
    /\ idx > Len(volumes)
    /\ last_action' = "send_email"
    /\ \E sent \in BOOLEAN :
         /\ emails' = Append(emails,
                Email("Docker Volume Backup Report", backup_summary, NoError, sent))
         /\ IF sent
              THEN pc' = "close" /\ UNCHANGED fatal_error
              ELSE Raise("email_error")
    /\ UNCHANGED <<run, previous_run, now, archive_time,
                   volumes, ssh_key_exists, has_remote_path, idx, backup_summary,
                   local_files, remote_dirs, remote_files, remote_count, tarball,
                   provision, transfer, ssh_created, connects, connected, closes>>

\* backup.py:102, then main.py:13 and the return of main
Close ==
    /\ pc = "close"
    /\ closes' = closes + 1
    /\ last_action' = "close"
    /\ pc' = "done"
    /\ UNCHANGED <<run, previous_run, now, archive_time,
                   volumes, ssh_key_exists, has_remote_path, idx, backup_summary,
                   local_files, remote_dirs, remote_files, remote_count, tarball,
                   provision, transfer, ssh_created, connects, connected, emails, fatal_error>>

\* Mutant of HandleException: the error is logged and no e-mail is sent.
HandleException_LogsOnly ==
    /\ pc = "except"
    /\ last_action' = last_action
    /\ emails' = emails
    /\ pc' = "done"
    /\ UNCHANGED <<run, previous_run, now, archive_time,
                   volumes, ssh_key_exists, has_remote_path, idx, backup_summary,
                   local_files, remote_dirs, remote_files, remote_count, tarball,
                   provision, transfer, ssh_created, connects, connected, closes, fatal_error>>

\* main.py:14-17: the failure e-mail; when send_email raises here the
\* exception leaves main and the process ends with a traceback.
HandleException ==
    /\ pc = "except"
    /\ last_action' = "send_email"
    /\ \E sent \in BOOLEAN :
         /\ emails' = Append(emails, Email("Backup Failed", << >>, fatal_error, sent))
         /\ pc' = IF sent THEN "done" ELSE "crashed"
    /\ UNCHANGED <<run, previous_run, now, archive_time,
                   volumes, ssh_key_exists, has_remote_path, idx, backup_summary,
                   local_files, remote_dirs, remote_files, remote_count, tarball,
                   provision, transfer, ssh_created, connects, connected, closes, fatal_error>>

Next ==
    \/ Discover
    \/ CheckKey
    \/ Connect
    \/ Archive
    \/ EnsureRemoteFolder
    \/ Upload
    \/ CountRemote
    \/ RemoveLocal
    \/ AppendSummary
    \/ Report
    \/ Close
    \/ HandleException

Spec == Init /\ [][Next]_vars

\* main.py:19-20: the command is invoked again after the previous process
\* has ended.  The new process starts from fresh program state; the working
\* directory, the remote host, the clock, the volumes and the configuration
\* are those the previous invocation left.
NextRun ==
    /\ pc \in {"done", "crashed"}
    /\ run < MaxRuns
    /\ run' = run + 1
    /\ previous_run' = [summary |-> backup_summary, archive_time |-> archive_time]
    /\ pc' = "main"
    /\ idx' = 0
    /\ backup_summary' = << >>
    /\ remote_count' = 0
    /\ archive_time' = [v \in VolumeNames |-> 0]
    /\ tarball' = [v \in VolumeNames |-> NotArchived]
    /\ provision' = [v \in VolumeNames |-> "pending"]
    /\ transfer' = [v \in VolumeNames |-> "pending"]
    /\ ssh_created' = FALSE
    /\ connects' = 0
    /\ connected' = FALSE
    /\ closes' = 0
    /\ emails' = << >>
    /\ fatal_error' = NoError
    /\ last_action' = "none"
    /\ UNCHANGED <<volumes, ssh_key_exists, has_remote_path, now, local_files,
                   remote_dirs, remote_files>>

\* successive invocations over at most MaxRunVolumes volumes
InitRuns ==
    /\ Init
    /\ Len(volumes) <= MaxRunVolumes

NextRuns ==
    \/ Next
    \/ NextRun

SpecRuns == InitRuns /\ [][NextRuns]_vars

\* every enabled step of the run is eventually taken: each blocking call
\* returns or raises
LiveSpec == Spec /\ WF_vars(Next)

\* main() has returned or died: the process has ended
Terminated == pc \in {"done", "crashed"}

\* position of a volume in discovery order (0 when it was not discovered)
IndexOf(v) ==
    IF \E k \in DOMAIN volumes : volumes[k] = v
      THEN CHOOSE k \in DOMAIN volumes : volumes[k] = v
      ELSE 0

\* tar ran for the volume and returned nonzero or left no file
ArchivalFailed(v) ==
    tarball[v].attempted /\ (tarball[v].status # 0 \/ ~tarball[v].file_exists)

\* tar ran for the volume, returned zero and left the archive file
ArchivalSucceeded(v) ==
    tarball[v].attempted /\ tarball[v].status = 0 /\ tarball[v].file_exists

\* mkdir or put failed for the volume
TransferStepFailed(v) ==
    \/ provision[v] \in {"attribute_error", "ssh_exception"}
    \/ transfer[v] = "failed"

\* the volume at position k has left its loop iteration, or the run is over
ProcessingCompleted(k) ==
    \/ Terminated
    \/ pc = "except"
    \/ (pc \in {"loop", "mkdir", "upload", "count", "remove", "append", "close"}
        /\ idx > k)

\* archive files of volume v in the working directory
LocalArchivesOf(v) ==
    { f \in local_files : f[1] = v }

\* positions of the entries for volume v in a summary
EntriesOf(summary, v) ==
    { n \in DOMAIN summary : summary[n].volume = v }

\* an exception other than a failure of send_email left perform_backup
RunAborted == fatal_error \notin {NoError, "email_error"}

TypeOK ==
    /\ volumes \in VolumeLists
    /\ pc \in {"main", "check_key", "connect", "loop", "mkdir", "upload", "count",
               "remove", "append", "close", "except", "done", "crashed"}
    /\ idx \in 0..(Len(volumes) + 1)
    /\ local_files \subseteq (VolumeNames \X (1..MaxClock))
    /\ now \in 1..MaxClock
    /\ run \in 1..MaxRuns
    /\ remote_dirs \subseteq VolumeNames
    /\ closes \in 0..1
    /\ connects \in 0..1

(***************************************************************************)
(* Claims                                                                  *)
(***************************************************************************)

\* C1: whenever the run has ended and ssh.connect had succeeded, ssh.close
\* was called exactly once.
C1_SessionClosedExactlyOnce ==
    (Terminated /\ connected) => closes = 1

\* C2: a volume whose archive succeeded and whose mkdir or put failed does
\* not abort the run: no exception is in flight or recorded, the volume has
\* no summary entry, and at the end of the run every later volume was archived.
C2_TransferFailureSkipsOnlyThatVolume ==
    \A k \in DOMAIN volumes :
        (ArchivalSucceeded(volumes[k]) /\ TransferStepFailed(volumes[k])) =>
            /\ ~RunAborted
            /\ EntriesOf(backup_summary, volumes[k]) = {}
            /\ Terminated =>
                 \A j \in DOMAIN volumes : j > k => tarball[volumes[j]].attempted

\* C3: once a volume has left its loop iteration (or the run is over) its
\* archive file is not in the working directory.
C3_NoLocalResidue ==
    \A k \in DOMAIN volumes :
        (tarball[volumes[k]].attempted /\ ProcessingCompleted(k)) =>
            LocalArchivesOf(volumes[k]) = {}

\* C4: when the run has ended exactly one send_email call was made and it
\* was the last observable call of the run.
C4_ExactlyOneNotificationLast ==
    Terminated => (Len(emails) = 1 /\ last_action = "send_email")

\* C5: a run that discovered no volumes ends with an empty summary and no
\* error, without a key check or a session, and with one success e-mail.
C5_NoVolumesReportsSuccess ==
    (Terminated /\ volumes = << >>) =>
        /\ backup_summary = << >>
        /\ fatal_error = NoError
        /\ ~ssh_created /\ connects = 0
        /\ Len(emails) = 1
        /\ emails[1].subject = "Docker Volume Backup Report"

\* C6: after a failed ssh.connect the run is aborted with the connection
\* error, the summary is empty, no tar command has run and no archive file
\* of the run is on disk, and no report with entries is sent.
C6_ConnectionFailureAborts ==
    (connects > 0 /\ ~connected) =>
        /\ pc \in {"except", "done", "crashed"}
        /\ fatal_error \in {"ssh_connection_failed", "connect_error"}
        /\ backup_summary = << >>
        /\ \A v \in VolumeNames : ~tarball[v].attempted
        /\ local_files = {}
        /\ \A n \in DOMAIN emails :
             emails[n].subject = "Backup Failed" /\ emails[n].detail = fatal_error

\* C6 witness: a run over two or more volumes ended after ssh.connect failed
C6_Witness ==
    /\ pc = "done"
    /\ connects = 1 /\ ~connected
    /\ Len(volumes) >= 2
    /\ fatal_error = "ssh_connection_failed"

\* C7: a volume whose archival failed has no summary entry and does not
\* abort the run: at the end of the run every later volume was archived, and
\* when all volumes failed archival no exception aborted the run.
C7_ArchiveFailureSkipsOnlyThatVolume ==
    /\ \A k \in DOMAIN volumes :
        ArchivalFailed(volumes[k]) =>
            /\ EntriesOf(backup_summary, volumes[k]) = {}
            /\ Terminated =>
                 \A j \in DOMAIN volumes : j > k => tarball[volumes[j]].attempted
    /\ (Terminated /\ \A k \in DOMAIN volumes : ArchivalFailed(volumes[k]))
          => ~RunAborted

\* C8: at the end of the run every volume whose archival and upload both
\* succeeded has exactly one summary entry, with remote count at least 1.
C8_OneEntryPerSuccessfulVolume ==
    Terminated =>
        \A k \in DOMAIN volumes :
            (ArchivalSucceeded(volumes[k]) /\ transfer[volumes[k]] = "ok") =>
                /\ Cardinality(EntriesOf(backup_summary, volumes[k])) = 1
                /\ \A n \in EntriesOf(backup_summary, volumes[k]) :
                     backup_summary[n].remote_count >= 1

\* C9: every summary entry, in the list and in any report sent, belongs to a
\* discovered volume whose archival succeeded and whose upload succeeded; a
\* volume that failed either step has no entry.
C9_EntriesOnlyForSuccessfulVolumes ==
    /\ \A n \in DOMAIN backup_summary :
         /\ IndexOf(backup_summary[n].volume) > 0
         /\ ArchivalSucceeded(backup_summary[n].volume)
         /\ transfer[backup_summary[n].volume] = "ok"
    /\ \A v \in VolumeNames :
         (ArchivalFailed(v) \/ TransferStepFailed(v)) =>
             EntriesOf(backup_summary, v) = {}
    /\ \A m \in DOMAIN emails : \A n \in DOMAIN emails[m].entries :
         /\ ArchivalSucceeded(emails[m].entries[n].volume)
         /\ transfer[emails[m].entries[n].volume] = "ok"

\* C9 witness: an entry exists while an earlier volume failed archival with
\* a file left on disk and a later volume failed its upload
C9_Witness ==
    /\ Len(backup_summary) >= 1
    /\ \E v \in VolumeNames : ArchivalFailed(v) /\ tarball[v].file_exists
    /\ \E v \in VolumeNames : ArchivalSucceeded(v) /\ transfer[v] = "failed"

\* C10: the entries are in discovery order (their volumes' positions are
\* strictly increasing), and volumes are processed one after another in
\* that order: the volumes archived so far are exactly the first ones up to
\* the loop position, and only the volume at the loop position can be
\* between its archival and its entry.
C10_DiscoveryOrder ==
    /\ \A m, n \in DOMAIN backup_summary :
         m < n => /\ IndexOf(backup_summary[m].volume) > 0
                  /\ IndexOf(backup_summary[m].volume)
                       < IndexOf(backup_summary[n].volume)
    /\ \A k \in DOMAIN volumes :
         /\ tarball[volumes[k]].attempted => k <= idx
         /\ k < idx => tarball[volumes[k]].attempted
         /\ (k < idx /\ ArchivalSucceeded(volumes[k]))
              => EntriesOf(backup_summary, volumes[k]) # {}
         /\ (k = idx /\ pc \in {"mkdir", "upload", "count", "remove", "append"})
              => (ArchivalSucceeded(volumes[k])
                    /\ EntriesOf(backup_summary, volumes[k]) = {})
    /\ \A m \in DOMAIN emails : \A a, b \in DOMAIN emails[m].entries :
         a < b => IndexOf(emails[m].entries[a].volume)
                    < IndexOf(emails[m].entries[b].volume)

\* C10 witness: a report with three entries was sent
C10_Witness ==
    /\ Len(backup_summary) = 3
    /\ \E m \in DOMAIN emails : Len(emails[m].entries) = 3

\* C11: in a run that discovered volumes, when the SSH key or
\* REMOTE_BACKUP_PATH is missing no connect is made and no tar runs, and the
\* run ends with the configuration error.
C11_MissingParameterAbortsEarly ==
    (volumes # << >> /\ pc # "main" /\ (~ssh_key_exists \/ ~has_remote_path)) =>
        /\ connects = 0
        /\ ~ssh_created
        /\ \A v \in VolumeNames : ~tarball[v].attempted
        /\ Terminated => fatal_error \in {"ssh_key_not_found", "attribute_error"}

\* C12: when the run has ended with a configuration or connection error the
\* last call of the run was send_email("Backup Failed", ...) carrying that
\* error.
C12_FatalErrorNotified ==
    (Terminated /\ fatal_error \in {"ssh_key_not_found", "attribute_error",
                                    "ssh_connection_failed", "connect_error"}) =>
        /\ Len(emails) = 1
        /\ emails[1].subject = "Backup Failed"
        /\ emails[1].detail = fatal_error
        /\ last_action = "send_email"

\* C12 witness: runs ended after a missing key and the failure e-mail
C12_Witness ==
    /\ Terminated
    /\ fatal_error = "ssh_key_not_found"
    /\ Len(emails) = 1 /\ emails[1].sent

\* volume v has an entry in the previous invocation and in the current one
RecordedTwice(v) ==
    /\ run > 1
    /\ EntriesOf(previous_run.summary, v) # {}
    /\ EntriesOf(backup_summary, v) # {}

\* the two archives of v are both in its remote folder under different
\* names, and the later count is the earlier count plus one
TwoArchivesCountPlusOne(v) ==
    /\ previous_run.archive_time[v] # archive_time[v]
    /\ ArchiveName(v, previous_run.archive_time[v]) \in remote_files[v]
    /\ ArchiveName(v, archive_time[v]) \in remote_files[v]
    /\ ArchiveName(v, previous_run.archive_time[v]) # ArchiveName(v, archive_time[v])
    /\ \A m \in EntriesOf(previous_run.summary, v) :
         \A n \in EntriesOf(backup_summary, v) :
            backup_summary[n].remote_count
               = previous_run.summary[m].remote_count + 1

\* C13 (as stated): a volume recorded by two successive invocations has two
\* distinct remote archives and the second count is the first plus one.
C13_TwoRunsTwoArchives ==
    \A v \in VolumeNames : RecordedTwice(v) => TwoArchivesCountPlusOne(v)

\* C13 (amended): a volume recorded by two successive invocations whose
\* archives were named in different seconds has two distinct remote archives
\* and the second count is the first plus one; when both archives were named
\* in the same second the second upload overwrites the first and the count
\* does not change.
C13_TwoRunsTwoArchivesWhenSecondsDiffer ==
    \A v \in VolumeNames : RecordedTwice(v) =>
        IF previous_run.archive_time[v] # archive_time[v]
          THEN TwoArchivesCountPlusOne(v)
          ELSE \A m \in EntriesOf(previous_run.summary, v) :
                 \A n \in EntriesOf(backup_summary, v) :
                    backup_summary[n].remote_count
                       = previous_run.summary[m].remote_count

\* C13 witness: a volume recorded twice with archives named in different seconds
C13_Witness ==
    \E v \in VolumeNames :
        /\ RecordedTwice(v)
        /\ previous_run.archive_time[v] # archive_time[v]
        /\ pc = "done"

\* C14: whenever the report has been handed to send_email the session is
\* already closed.
C14_ClosedBeforeReport ==
    \A m \in DOMAIN emails :
        emails[m].subject = "Docker Volume Backup Report" => closes = 1

\* C15: ssh.connect is called at most once, and tar, remote commands and
\* uploads happen only after that one connect succeeded; a failed connect
\* is followed by no volume work.
C15_ConnectOnceBeforeVolumes ==
    /\ connects <= 1
    /\ ( \/ \E v \in VolumeNames :
              \/ tarball[v].attempted
              \/ provision[v] # "pending"
              \/ transfer[v] # "pending"
         \/ last_action \in {"tar", "mkdir", "put", "ls", "remove"}
         \/ pc \in {"loop", "mkdir", "upload", "count", "remove", "append", "close"} )
          => (connects = 1 /\ connected)
    /\ (connects = 1 /\ ~connected) =>
          /\ \A v \in VolumeNames : ~tarball[v].attempted
          /\ pc \in {"except", "done", "crashed"}

\* C15 witness: two volumes were uploaded over the one session
C15_Witness ==
    /\ connects = 1 /\ connected
    /\ Len(backup_summary) >= 2
    /\ \A n \in DOMAIN backup_summary : transfer[backup_summary[n].volume] = "ok"

\* the upload of v has been attempted or is the next step
UploadAttempted(v) ==
    \/ transfer[v] # "pending"
    \/ (pc = "upload" /\ volumes[idx] = v)

C17_AtMostOneLocalArchive ==
    Cardinality(local_files) <= 1

\* C18: a step that removes a local archive is the os.remove of the current
\* volume, taken after its upload succeeded and right after its count was
\* read; a step that appends an entry is taken right after that removal,
\* with the archive gone.
C18_RemoveAfterTransferBeforeEntry ==
    [][ /\ (~(local_files \subseteq local_files')) =>
              /\ pc = "remove"
              /\ transfer[volumes[idx]] = "ok"
              /\ last_action = "ls"
              /\ remote_count = Cardinality(remote_files[volumes[idx]])
              /\ local_files \ local_files'
                   = {ArchiveName(volumes[idx], archive_time[volumes[idx]])}
        /\ (backup_summary' # backup_summary) =>
              /\ last_action = "remove"
              /\ ArchiveName(volumes[idx], archive_time[volumes[idx]])
                   \notin local_files
      ]_vars

\* C18 witness: the archive of the current volume was removed and its entry
\* is about to be appended
C18_Witness ==
    /\ pc = "append"
    /\ transfer[volumes[idx]] = "ok"
    /\ tarball[volumes[idx]].file_exists
    /\ LocalArchivesOf(volumes[idx]) = {}

\* C19: under LiveSpec every run ends, and when it has ended either an
\* exception was raised or every discovered volume failed archival or has
\* an entry.
C19_RunTerminates ==
    /\ <>Terminated
    /\ [](Terminated =>
            \/ fatal_error # NoError
            \/ \A k \in DOMAIN volumes :
                 \/ ArchivalFailed(volumes[k])
                 \/ EntriesOf(backup_summary, volumes[k]) # {})

\* C19 witness: a run ended without error with one volume skipped and one
\* recorded
C19_Witness ==
    /\ pc = "done"
    /\ fatal_error = NoError
    /\ \E v \in VolumeNames : ArchivalFailed(v)
    /\ \E v \in VolumeNames : EntriesOf(backup_summary, v) # {}

====
